---- MODULE Spec2Model ----
(***************************************************************************)
(* AgroIA satellite analysis: the daily orchestrator (DailyAnalysisJob,    *)
(* cron/dailyAnalysis.js) and the alert service (FarmAlertService,         *)
(* services/ndviAnalysisService.js).                                       *)
(*                                                                         *)
(* Node.js runs one continuation at a time: the code between two awaits is *)
(* atomic.  A farm task is in flight at two places: inside its pipeline    *)
(* (freshness query, image lookup, download, vision, alerts, saving the    *)
(* analysis: awaits that read and write rows of the task's own farm only)  *)
(* and, after failedAnalyses++, inside _saveAnalysisError.                 *)
(***************************************************************************)
EXTENDS Integers, Sequences, FiniteSets, TLC

\* ------------------------------------------------------------------ bounds
\* rows of the farms table
MaxFleet == 12
\* active farms at the start of a behaviour of Spec
MaxFarms == 6
\* external calls that fail or come back empty, over one behaviour
MaxFaults == 1
\* calls of runDailySatelliteAnalysis (cron or manual), over one behaviour
MaxCalls == 2
\* alerts one farm's analysis yields
MaxAlerts == 1
\* findings of one vision analysis
MaxFindings == 2
\* width, height (pixels) and channels of a band raster
MaxWidth == 2
MaxHeight == 2
MaxChannels == 2

\* ------------------------------------------------------- program constants
batchSize == 5
\* alerts.slice(0, 3) of _buildWhatsAppMessage
listedAlerts == 3

FarmIds == 1..MaxFleet

Undefined == "undefined"

Terminal == {"succeeded", "skipped_fresh", "skipped_no_image", "failed"}
InFlightPc == {"analyze", "saveError"}

VARIABLES
  \* DailyAnalysisJob fields
  isRunning, lastExecution, statistics,
  \* position of the run inside runDailySatelliteAnalysis, its locals
  pc, farms, i,
  \* one _analyzeFarmDaily promise per listed farm
  task,
  \* database: farms table, satellite_analyses, analysis_errors, daily_reports
  registry, analyses, errors, reports,
  \* process.env: ADMIN_WHATSAPP_CONTACTS (count), ADMIN_REPORTS_ENABLED
  adminContacts, adminReportsEnabled,
  \* messages handed to whatsappService.sendMessage by the job, by kind
  sent,
  \* the clock (one tick per call of runDailySatelliteAnalysis; the timestamps
  \* written during a run are the tick of its start), faults injected
  now, faults,
  \* observation: the warnings logged at line 36; of the current run, the
  \* batches launched, the pauses begun, its log lines, where an error was
  \* raised per farm (the freshness query, a call of the pipeline, the save of
  \* the analysis), the farms whose analysis and error rows were inserted and
  \* the daily_reports rows inserted
  warnings, batches, delays, runLog, raised, persisted,
  \* FarmAlertService.processAnalysisAlerts: the position of the call, its
  \* arguments, ALERT_WHATSAPP_ENABLED === 'true', its locals
  alertPc, farmInfo, ndviAnalysis, claudeAnalysis, whatsappEnabled,
  claudeAlerts, prioritizedAlerts, savedAlerts,
  \* the messages handed to whatsappService.sendMessage by the alert service
  outbox,
  \* NDVIAnalysisService: process.env.NDVI_THRESHOLD_* as the constructor reads
  \* them, this.thresholds, the arguments of calculateNDVI as sharp decodes
  \* them, the position of the call, what it returns and what it throws
  thresholdEnv, thresholds, nirBand, redBand, ndviPc, ndviResult, ndviError

varsJob == <<isRunning, lastExecution, statistics>>
varsRun == <<pc, farms, i, task>>
varsDb == <<registry, analyses, errors, reports>>
varsEnv == <<adminContacts, adminReportsEnabled, sent, now, faults>>
varsObs == <<warnings, batches, delays, runLog, raised, persisted>>
varsOrchestrator == <<varsJob, varsRun, varsDb, varsEnv, varsObs>>
varsAlert == <<alertPc, farmInfo, ndviAnalysis, claudeAnalysis, whatsappEnabled,
               claudeAlerts, prioritizedAlerts, savedAlerts, outbox>>
varsNdvi == <<thresholdEnv, thresholds, nirBand, redBand, ndviPc, ndviResult, ndviError>>
vars == <<varsOrchestrator, varsAlert, varsNdvi>>

\* ------------------------------------------------------------ pure helpers
ZeroStatistics ==
  [totalFarms |-> 0, successfulAnalyses |-> 0, failedAnalyses |-> 0, alertsGenerated |-> 0]

Min(a, b) == IF a < b THEN a ELSE b

NothingPersisted == [analyses |-> {}, errors |-> {}, reports |-> <<>>]

Range(s) == {s[k] : k \in 1..Len(s)}

\* ORDER BY last_analysis_at ASC NULLS FIRST; NULL is 0, ties in id order
SortKey(reg, f) == reg[f].last_analysis_at * (MaxFleet + 1) + f

RECURSIVE OrderBy(_, _)
OrderBy(reg, S) ==
  IF S = {} THEN <<>>
  ELSE LET f == CHOOSE x \in S : \A y \in S : SortKey(reg, x) <= SortKey(reg, y)
       IN <<f>> \o OrderBy(reg, S \ {f})

\* the row _getActiveFarms returns for a farm: the SELECT list names neither
\* priority, crop_stage nor last_risk_level
FarmRow(reg, f) ==
  [id |-> f, last_analysis_at |-> reg[f].last_analysis_at,
   priority |-> Undefined, crop_stage |-> Undefined, last_risk_level |-> Undefined]

\* _getActiveFarms: the rows of the active farms in order, [] when the query fails
GetActiveFarms(reg, queryOk) ==
  IF queryOk
    THEN LET ids == OrderBy(reg, {f \in FarmIds : reg[f].active})
         IN [k \in 1..Len(ids) |-> FarmRow(reg, ids[k])]
    ELSE <<>>

\* _hasRecentAnalysis: COUNT(*) > 0, false when the query fails
HasRecentAnalysis(count, queryOk) == IF queryOk THEN count > 0 ELSE FALSE

ShouldForceAnalysis(farm) ==
  \/ farm.priority = "high"
  \/ farm.crop_stage = "critical"
  \/ farm.last_risk_level = "high"

\* farms.slice(i, i + batchSize), as the set of the farm ids and as their sequence
BatchSeq(fs, start) ==
  [k \in 1..(Min(start + batchSize, Len(fs)) - Min(start, Len(fs))) |-> fs[start + k].id]

Batch(fs, start) == Range(BatchSeq(fs, start))

\* mutant: the batch is awaited with Promise.race
AnySettled(B) == \E f \in B : task[f] \in Terminal

\* Promise.allSettled over the batch's tasks
AllSettled(B) == \A f \in B : task[f] \in Terminal

\* mutant: a failed task of the batch ends the loop
HasNextBatchUnlessFailed ==
  /\ i + batchSize < Len(farms)
  /\ \A f \in Batch(farms, i) : task[f] # "failed"

\* mutant: the test of line 77 off by one
HasNextBatchInclusive == i + batchSize <= Len(farms)

\* the test of line 77: a pause only when another batch follows
HasNextBatch == i + batchSize < Len(farms)

\* the loop test of line 67
LoopContinues(start) == start < Len(farms)

\* mutant: no reentrancy guard
AlreadyRunningNever == FALSE

\* the guard of line 35
AlreadyRunning == isRunning

\* the number of alerts that survive _prioritizeAlerts for farm f
AlertsFor(f) == f % (MaxAlerts + 1)

\* what the environment does to one pipeline: the freshness query, and the
\* first external call that does not return its normal result
FreshOutcomes == {"ok", "error"}
Throws == {"image_throw", "download_throw", "vision_throw", "alerts_throw"}
SaveFailures == {"insert_fail", "update_fail"}
\* an INSERT into farm_alerts of _saveAlerts fails, caught there (lines
\* 512-514); the rows of the listing carry owner_phone and technical_contacts,
\* not the ownerPhone and technicalContacts _sendWhatsAppAlerts reads, so the
\* alert step of a listed farm calls no sendMessage that could fail
AlertFailures == {"alert_insert_fail"}
RestOutcomes == {"ok", "no_image"} \cup Throws \cup SaveFailures \cup AlertFailures

\* alerts.length of line 162: the savedAlerts processAnalysisAlerts returns
SavedAlertsFor(f, rest) ==
  IF rest \in AlertFailures THEN AlertsFor(f) - 1 ELSE AlertsFor(f)

\* mutant: the failed INSERT of an alert is thrown on to _analyzeFarmDaily
PipelineAlertFailureThrown(farm, count, fresh, rest) ==
  IF HasRecentAnalysis(count, fresh = "ok") /\ ~ShouldForceAnalysis(farm)
    THEN "skip_fresh"
  ELSE IF rest = "image_throw" THEN "throw"
  ELSE IF rest = "no_image" THEN "skip_no_image"
  ELSE IF rest \in Throws \cup AlertFailures THEN "throw"
  ELSE "analyzed"

\* _analyzeFarmDaily, lines 113-159: the result of the pipeline for a row;
\* _saveAnalysisResult catches its own errors
Pipeline(farm, count, fresh, rest) ==
  IF HasRecentAnalysis(count, fresh = "ok") /\ ~ShouldForceAnalysis(farm)
    THEN "skip_fresh"
  ELSE IF rest = "image_throw" THEN "throw"
  ELSE IF rest = "no_image" THEN "skip_no_image"
  ELSE IF rest \in Throws THEN "throw"
  ELSE "analyzed"

Cost(fresh, rest) ==
  (IF fresh = "error" THEN 1 ELSE 0) + (IF rest = "ok" THEN 0 ELSE 1)

\* ------------------------------------------------------- the index service
\* parseFloat(process.env.NDVI_THRESHOLD_X) || default, in ten-thousandths
DefaultThresholds == [low |-> 2000, normal |-> 4000, high |-> 7000]

\* not a number: parseFloat of an unset variable, undefined / 255 for a sample
\* the red buffer does not have
NaN == 99999

\* parseFloat of the texts the environment holds, in ten-thousandths
ParseFloat(text) ==
  CASE text = "0.1" -> 1000
    [] text = "0" -> 0
    [] OTHER -> NaN

\* NaN and 0 are falsy
OrDefault(value, default) ==
  IF value = NaN \/ value = 0 THEN default ELSE value

Thresholds(env) ==
  [low |-> OrDefault(ParseFloat(env.low), DefaultThresholds.low),
   normal |-> OrDefault(ParseFloat(env.normal), DefaultThresholds.normal),
   high |-> OrDefault(ParseFloat(env.high), DefaultThresholds.high)]

\* the index of one sample, in tenths: the byte levels of the rasters are
\* chosen so that the quotient is a whole number of tenths
Index(nir, red) ==
  IF nir + red = 0 THEN 0 ELSE ((nir - red) * 10) \div (nir + red)

\* _computeNDVIPixels: one value per sample of the NIR buffer
ComputeNDVIPixels(nirData, redData) ==
  [k \in 1..Len(nirData) |->
     IF k > Len(redData) THEN NaN ELSE Index(nirData[k], redData[k])]

\* !isNaN(val) && val >= -1 && val <= 1
IsValidValue(val) == val # NaN /\ val >= -10 /\ val <= 10

RECURSIVE SumSeq(_)
SumSeq(s) == IF s = <<>> THEN 0 ELSE s[1] + SumSeq(Tail(s))

RECURSIVE SumSquares(_)
SumSquares(s) == IF s = <<>> THEN 0 ELSE s[1] * s[1] + SumSquares(Tail(s))

MinOf(s) == CHOOSE v \in {s[k] : k \in 1..Len(s)} : \A k \in 1..Len(s) : v <= s[k]
MaxOf(s) == CHOOSE v \in {s[k] : k \in 1..Len(s)} : \A k \in 1..Len(s) : v >= s[k]

\* Number.prototype.toFixed of a / b (b > 0), as a whole number of the last
\* digit kept: the nearest, a tie away from zero
RoundDiv(a, b) ==
  IF a >= 0 THEN (2 * a + b) \div (2 * b) ELSE 0 - ((2 * (0 - a) + b) \div (2 * b))

\* the largest r with r * r <= x, for 0 <= lo * lo <= x < hi * hi
RECURSIVE FloorSqrt(_, _, _)
FloorSqrt(x, lo, hi) ==
  IF hi - lo <= 1 THEN lo
  ELSE LET mid == (lo + hi) \div 2
       IN IF mid * mid <= x THEN FloorSqrt(x, mid, hi) ELSE FloorSqrt(x, lo, mid)

\* Math.sqrt(variance).toFixed(4) in ten-thousandths, for values in tenths
\* with sum `sum`, sum of squares `squares` and count n:
\* variance = (n * squares - sum^2) / n^2 tenths^2; the nearest k is the least
\* with (2k + 1)^2 > 4 * 10^6 * variance, whose floor is taken by long division
StdOf(sum, squares, n) ==
  LET d == n * squares - sum * sum
      nn == n * n
      a == 2000 * (d % nn)
      t == 4000000 * (d \div nn) + 2000 * (a \div nn) + (2000 * (a % nn)) \div nn
  IN (FloorSqrt(t, 0, 20002) + 1) \div 2

\* _calculateStatistics
CalculateStatistics(ndviData) ==
  LET validValues == SelectSeq(ndviData, IsValidValue)
      n == Len(validValues)
      sum == SumSeq(validValues)
  IN IF n = 0
       THEN [average |-> 0, min |-> 0, max |-> 0, std |-> 0,
             validPixels |-> Undefined, totalPixels |-> Undefined]
       ELSE [average |-> RoundDiv(1000 * sum, n),
             min |-> 1000 * MinOf(validValues),
             max |-> 1000 * MaxOf(validValues),
             std |-> StdOf(sum, SumSquares(validValues), n),
             validPixels |-> n,
             totalPixels |-> Len(ndviData)]

ZoneNames ==
  {"water", "bare_soil", "sparse_vegetation", "moderate_vegetation", "dense_vegetation"}

\* the else-if chain of _identifyVegetationZones: every comparison with NaN is
\* false
ZoneOf(value, th) ==
  IF value # NaN /\ value < 0 THEN "water"
  ELSE IF value # NaN /\ 1000 * value < th.low THEN "bare_soil"
  ELSE IF value # NaN /\ 1000 * value < th.normal THEN "sparse_vegetation"
  ELSE IF value # NaN /\ 1000 * value < th.high THEN "moderate_vegetation"
  ELSE "dense_vegetation"

\* _identifyVegetationZones: ndviData.forEach over every value, the
\* percentages of ndviData.length, in hundredths of a percent
IdentifyVegetationZones(ndviData, th) ==
  LET totalPixels == Len(ndviData)
      count(z) == Cardinality({k \in 1..totalPixels : ZoneOf(ndviData[k], th) = z})
  IN [z \in ZoneNames |->
        [count |-> count(z),
         percentage |-> IF totalPixels = 0 THEN NaN
                        ELSE RoundDiv(10000 * count(z), totalPixels)]]

\* ------------------------------------------------------- the alert service
\* NDVIAnalysisService._generateAlerts: statistics.average and statistics.std
\* in ten-thousandths (toFixed(4)), zones.bare_soil.percentage in hundredths of
\* a percent (toFixed(2)); an alert's free text (message, description, summary)
\* stands as a number, 0 for the fixed texts
GenerateAlerts(stats, zones) ==
  (IF stats.average < thresholds.low
     THEN <<[type |-> "LOW_VEGETATION_INDEX", severity |-> "high", message |-> 0]>>
     ELSE <<>>)
  \o (IF stats.std > 2000
        THEN <<[type |-> "HIGH_VARIABILITY", severity |-> "medium", message |-> 0]>>
        ELSE <<>>)
  \o (IF zones.bare_soil.percentage # NaN /\ zones.bare_soil.percentage > 3000
        THEN <<[type |-> "EXCESSIVE_BARE_SOIL", severity |-> "medium", message |-> 0]>>
        ELSE <<>>)
  \o (IF stats.average > thresholds.high
        THEN <<[type |-> "HEALTHY_VEGETATION", severity |-> "info", message |-> 0]>>
        ELSE <<>>)

\* names every object literal inherits from Object.prototype, and what a
\* lookup of one of them in the literal yields: a function or object, truthy
ObjectPrototype ==
  {"constructor", "toString", "toLocaleString", "valueOf", "hasOwnProperty",
   "isPrototypeOf", "propertyIsEnumerable", "__proto__"}
Inherited == "inherited from Object.prototype"

\* _mapClaudeSeverity: mapping[claudeSeverity] || 'medium', mapping an object
\* literal with the five own keys
MapClaudeSeverity(claudeSeverity) ==
  CASE claudeSeverity = "critical" -> "high"
    [] claudeSeverity = "high" -> "high"
    [] claudeSeverity = "medium" -> "medium"
    [] claudeSeverity = "low" -> "low"
    [] claudeSeverity = "info" -> "info"
    [] claudeSeverity \in ObjectPrototype -> Inherited
    [] OTHER -> "medium"

\* _processNDVIAlerts
ProcessNDVIAlerts(ndvi) ==
  [k \in 1..Len(ndvi.alerts) |->
     [type |-> ndvi.alerts[k].type, severity |-> ndvi.alerts[k].severity,
      message |-> ndvi.alerts[k].message, source |-> "ndvi_analysis"]]

\* !claudeAnalysis?.analysis?.findings, line 405: the parsed response has no
\* findings property (an empty array is truthy)
NoFindings(claude) == "findings" \notin DOMAIN claude

\* _processClaudeAlerts: nothing for a response without findings; else one
\* alert per finding, then the general risk alert
ProcessClaudeAlerts(claude) ==
  IF NoFindings(claude) THEN <<>>
  ELSE
  [k \in 1..Len(claude.findings) |->
     [type |-> IF claude.findings[k].type = Undefined THEN "GENERAL_OBSERVATION"
               ELSE claude.findings[k].type,
      severity |-> MapClaudeSeverity(claude.findings[k].severity),
      message |-> claude.findings[k].description, source |-> "claude_vision"]]
  \o (IF claude.overallRisk = "high"
        THEN <<[type |-> "HIGH_RISK_IDENTIFIED", severity |-> "high", message |-> 0,
                source |-> "claude_vision"]>>
        ELSE <<>>)

\* the key of _removeDuplicateAlerts
AlertKey(alert) == <<alert.type, alert.severity>>

\* mutant: of the alerts of a key the last one is kept
RemoveDuplicateAlertsKeepLast(alerts) ==
  SelectSeq(alerts, LAMBDA a :
    LET last == CHOOSE k \in 1..Len(alerts) :
                  /\ AlertKey(alerts[k]) = AlertKey(a)
                  /\ \A j \in (k + 1)..Len(alerts) : AlertKey(alerts[j]) # AlertKey(a)
    IN alerts[last] = a)

\* _removeDuplicateAlerts: the first alert of every key, in order
RECURSIVE RemoveDuplicateAlerts(_)
RemoveDuplicateAlerts(alerts) ==
  IF alerts = <<>> THEN <<>>
  ELSE LET seen == RemoveDuplicateAlerts(SubSeq(alerts, 1, Len(alerts) - 1))
           alert == alerts[Len(alerts)]
       IN IF \E k \in 1..Len(seen) : AlertKey(seen[k]) = AlertKey(alert)
            THEN seen
            ELSE Append(seen, alert)

\* priorityOrder of _prioritizeAlerts
priorityOrder(severity) ==
  CASE severity = "high" -> 3
    [] severity = "medium" -> 2
    [] severity = "low" -> 1
    [] severity = "info" -> 0

\* mutant: a sort that is not stable, an alert going before those of its rank
RECURSIVE SortByPriorityUnstable(_)
SortByPriorityUnstable(alerts) ==
  IF alerts = <<>> THEN <<>>
  ELSE LET sorted == SortByPriorityUnstable(SubSeq(alerts, 1, Len(alerts) - 1))
           alert == alerts[Len(alerts)]
           k == Cardinality({j \in 1..Len(sorted) :
                  priorityOrder(sorted[j].severity) > priorityOrder(alert.severity)})
       IN SubSeq(sorted, 1, k) \o <<alert>> \o SubSeq(sorted, k + 1, Len(sorted))

\* Array.prototype.sort with (a, b) => priorityOrder[b] - priorityOrder[a]:
\* descending, alerts of equal rank in their order of arrival
RECURSIVE SortByPriority(_)
SortByPriority(alerts) ==
  IF alerts = <<>> THEN <<>>
  ELSE LET sorted == SortByPriority(SubSeq(alerts, 1, Len(alerts) - 1))
           alert == alerts[Len(alerts)]
           k == Cardinality({j \in 1..Len(sorted) :
                  priorityOrder(sorted[j].severity) >= priorityOrder(alert.severity)})
       IN SubSeq(sorted, 1, k) \o <<alert>> \o SubSeq(sorted, k + 1, Len(sorted))

\* _prioritizeAlerts
PrioritizeAlerts(alerts) == SortByPriority(RemoveDuplicateAlerts(alerts))

IsUrgent(alert) == alert.severity = "high" /\ alert.type # "HEALTHY_CROP"

\* mutant: the urgent filter of line 528 keeps every alert
UrgentAlertsAll(alerts) == alerts

\* the filter of lines 528-531
UrgentAlerts(alerts) == SelectSeq(alerts, IsUrgent)

IsHealthyCrop(alert) == alert.type = "HEALTHY_CROP"

\* the filter of line 565
HealthyAlerts(alerts) == SelectSeq(alerts, IsHealthyCrop)

\* _buildWhatsAppMessage: the first alerts of its argument and, past them,
\* the count of the others
BuildWhatsAppMessage(alerts) ==
  [kind |-> "urgent",
   listed |-> SubSeq(alerts, 1, Min(listedAlerts, Len(alerts))),
   remaining |-> IF Len(alerts) > listedAlerts THEN Len(alerts) - listedAlerts ELSE 0]

\* the message of _sendPositiveUpdate, built from healthyAlerts[0]
BuildPositiveUpdate(healthy) ==
  [kind |-> "positive", listed |-> <<healthy[1]>>, remaining |-> 0]

\* the recipients of _sendWhatsAppAlerts in the order of the sendMessage calls:
\* farmInfo.ownerPhone when set, then farmInfo.technicalContacts
UrgentRecipients(farm) ==
  (IF farm.ownerPhone # Undefined THEN <<"owner">> ELSE <<>>)
  \o [k \in 1..farm.technicalContacts |-> "technical"]

\* the recipient of _sendPositiveUpdate
PositiveRecipients(farm, healthy) ==
  IF Len(healthy) > 0 /\ farm.ownerPhone # Undefined THEN <<"owner">> ELSE <<>>

\* the messages handed to sendMessage by _sendWhatsAppAlerts when the call
\* number failAt throws (0: none does); the catch of line 555 ends the sends
Dispatch(farm, alerts, failAt) ==
  LET urgent == UrgentAlerts(alerts)
      healthy == HealthyAlerts(alerts)
      to == IF Len(urgent) = 0 THEN PositiveRecipients(farm, healthy)
            ELSE UrgentRecipients(farm)
      body == IF Len(urgent) = 0 THEN BuildPositiveUpdate(healthy)
              ELSE BuildWhatsAppMessage(urgent)
      handed == IF failAt = 0 THEN Len(to) ELSE Min(failAt, Len(to))
  IN [k \in 1..handed |->
        [to |-> to[k], kind |-> body.kind, listed |-> body.listed,
         remaining |-> body.remaining]]

\* the number of sendMessage calls _sendWhatsAppAlerts makes when none throws
DispatchCalls(farm, alerts) == Len(Dispatch(farm, alerts, 0))

\* the subsequence of s at the positions outside skip
RECURSIVE Without(_, _)
Without(s, skip) ==
  IF s = <<>> THEN <<>>
  ELSE LET front == Without(SubSeq(s, 1, Len(s) - 1), skip)
       IN IF Len(s) \in skip THEN front ELSE Append(front, s[Len(s)])

\* the arguments of the calls
Averages == {1000, 5000, 8000}
Canopies == {[std |-> 1000, bare_soil |-> 1000], [std |-> 3000, bare_soil |-> 1000],
             [std |-> 3000, bare_soil |-> 4000]}

\* what sharp decodes of a band: metadata() and raw().toBuffer(), one byte per
\* sample, width * height * channels of them; the levels repeat over the buffer
Raster(width, height, channels, levels) ==
  [width |-> width, height |-> height, channels |-> channels,
   data |-> [k \in 1..(width * height * channels) |->
               levels[((k - 1) % Len(levels)) + 1]]]

\* against a red level of 30 the NIR levels give the indices -1, 0, 0.2, 0.4
\* and 0.7: below zero and each bound of the default table; against a red
\* level of 0 they give 0 / 0 and 1
NirBytes == {0, 30, 45, 70, 170}
RedBytes == {0, 30}

NirRasters ==
  {Raster(w, h, c, levels) : w \in 1..MaxWidth, h \in 1..MaxHeight, c \in 1..MaxChannels,
                             levels \in NirBytes \X NirBytes \X NirBytes}

RedRasters ==
  {Raster(w, h, c, <<level>>) : w \in 1..MaxWidth, h \in 1..MaxHeight, c \in 1..MaxChannels,
                                level \in RedBytes}

\* NDVI_THRESHOLD_LOW, _NORMAL, _HIGH: all unset, or the high bound set to 0.1
ThresholdEnvs ==
  {[low |-> Undefined, normal |-> Undefined, high |-> Undefined],
   [low |-> Undefined, normal |-> Undefined, high |-> "0.1"]}

\* what a vision finding can carry: its type (or none) and its severity
FindingKinds ==
  {[type |-> "LOW_VEGETATION_INDEX", severity |-> "critical"],
   [type |-> "PEST_DISEASE_RISK", severity |-> "high"],
   [type |-> "PEST_DISEASE_RISK", severity |-> "low"],
   [type |-> "HIGH_VARIABILITY", severity |-> "medium"],
   [type |-> Undefined, severity |-> "critical"],
   [type |-> Undefined, severity |-> "severe"],
   [type |-> "PEST_DISEASE_RISK", severity |-> Undefined],
   [type |-> "HEALTHY_CROP", severity |-> "info"],
   [type |-> "HEALTHY_CROP", severity |-> "high"]}

FindingLists == UNION {[1..n -> FindingKinds] : n \in 0..MaxFindings}

\* the findings of a vision analysis, every description a text of its own
Findings(kinds) ==
  [k \in 1..Len(kinds) |->
     [type |-> kinds[k].type, severity |-> kinds[k].severity, description |-> k]]

\* the analysis JSON.parse makes of a vision response: its findings, or no
\* findings property, and riskAssessment.overallRisk
ClaudeAnalyses ==
  {[findings |-> Findings(kinds), overallRisk |-> risk] :
     kinds \in FindingLists, risk \in {"low", "high"}}
  \cup {[overallRisk |-> risk] : risk \in {"low", "high"}}

FarmInfos ==
  {[ownerPhone |-> o, technicalContacts |-> t] : o \in {"phone", Undefined}, t \in 0..1}

\* ---------------------------------------------------------------- initial
\* the profiles of the registry's farms: farm 1 has priority high, farm 2 is
\* at a critical crop stage, farm 3 had a high-risk analysis, the others none
ProfileOf(f) ==
  [priority |-> IF f = 1 THEN "high" ELSE "medium",
   crop_stage |-> IF f = 2 THEN "critical" ELSE "growth",
   last_risk_level |-> IF f = 3 THEN "high" ELSE "low"]

\* the farms that may start with an analysis inside the freshness window
FreshAtStart == 1..4

\* the registry holds n active farms; with fresh, the farms of FreshAtStart
\* have an analysis inside the window and their last_analysis_at set
InitDb(n, fresh) ==
  /\ registry = [f \in FarmIds |->
       [active |-> f <= n,
        priority |-> ProfileOf(f).priority,
        crop_stage |-> ProfileOf(f).crop_stage,
        last_risk_level |-> ProfileOf(f).last_risk_level,
        last_analysis_at |-> IF fresh /\ f \in FreshAtStart THEN 1 ELSE 0]]
  /\ analyses = [f \in FarmIds |-> IF fresh /\ f \in FreshAtStart THEN 1 ELSE 0]
  /\ errors = [f \in FarmIds |-> 0]
  /\ reports = 0

\* the fields of a DailyAnalysisJob after its constructor; pc0 is "idle", or
\* "uninitialized" while the module's dailyAnalysisJob is null
InitJobAt(pc0, now0, faults0) ==
  /\ isRunning = FALSE
  /\ lastExecution = 0
  /\ statistics = ZeroStatistics
  /\ pc = pc0
  /\ farms = <<>>
  /\ i = 0
  /\ task = [f \in FarmIds |-> "none"]
  /\ sent = [admin_report |-> 0, admin_error |-> 0]
  /\ now = now0
  /\ faults = faults0
  /\ warnings = 0
  /\ batches = <<>>
  /\ delays = 0
  /\ runLog = <<>>
  /\ raised = [f \in FarmIds |-> {}]
  /\ persisted = NothingPersisted

InitJob(now0, faults0) == InitJobAt("idle", now0, faults0)

\* process.env: no administrator contact and no report, or one contact and
\* ADMIN_REPORTS_ENABLED
InitEnv ==
  \E c \in 0..1 :
    /\ adminContacts = c
    /\ adminReportsEnabled = (c > 0)

\* no call of the alert service is modelled
InitAlertIdle ==
  /\ alertPc = "idle"
  /\ farmInfo = [ownerPhone |-> Undefined, technicalContacts |-> 0]
  /\ ndviAnalysis = [statistics |-> [average |-> 0, std |-> 0],
                     zones |-> [bare_soil |-> [percentage |-> 0]], alerts |-> <<>>]
  /\ claudeAnalysis = [findings |-> <<>>, overallRisk |-> "low"]
  /\ whatsappEnabled = FALSE
  /\ claudeAlerts = <<>>
  /\ prioritizedAlerts = <<>>
  /\ savedAlerts = <<>>
  /\ outbox = <<>>

\* one call processAnalysisAlerts(farmInfo, ndviAnalysis, claudeAnalysis): the
\* index analysis is the result of NDVIAnalysisService for its statistics
InitAlert ==
  /\ alertPc = "called"
  /\ farmInfo \in FarmInfos
  /\ \E average \in Averages, canopy \in Canopies :
       LET stats == [average |-> average, std |-> canopy.std]
           zones == [bare_soil |-> [percentage |-> canopy.bare_soil]]
       IN ndviAnalysis = [statistics |-> stats, zones |-> zones,
                          alerts |-> GenerateAlerts(stats, zones)]
  /\ claudeAnalysis \in ClaudeAnalyses
  /\ whatsappEnabled \in BOOLEAN
  /\ claudeAlerts = <<>>
  /\ prioritizedAlerts = <<>>
  /\ savedAlerts = <<>>
  /\ outbox = <<>>

\* no call of the index service is modelled
InitNdviIdle ==
  /\ thresholdEnv = [low |-> Undefined, normal |-> Undefined, high |-> Undefined]
  /\ thresholds = Thresholds(thresholdEnv)
  /\ nirBand = Raster(1, 1, 1, <<0>>)
  /\ redBand = Raster(1, 1, 1, <<0>>)
  /\ ndviPc = "idle"
  /\ ndviResult = <<>>
  /\ ndviError = Undefined

\* new NDVIAnalysisService() and one call calculateNDVI(nirBand, redBand)
InitNdvi ==
  /\ thresholdEnv \in ThresholdEnvs
  /\ thresholds = Thresholds(thresholdEnv)
  /\ nirBand \in NirRasters
  /\ redBand \in RedRasters
  /\ ndviPc = "called"
  /\ ndviResult = <<>>
  /\ ndviError = Undefined

Init ==
  /\ InitJob(1, 0)
  /\ InitNdviIdle
  /\ InitAlertIdle
  /\ \E n \in 0..MaxFarms, fresh \in BOOLEAN : InitDb(n, fresh)
  /\ InitEnv

\* one run over a fleet of up to MaxFleet farms, every external call returning
\* its normal result: the fault budget is spent and one call is left
InitFleet ==
  /\ InitJob(MaxCalls, MaxFaults)
  /\ InitNdviIdle
  /\ InitAlertIdle
  /\ \E n \in 0..MaxFleet, fresh \in BOOLEAN : InitDb(n, fresh)
  /\ InitEnv

\* ---------------------------------------------------------------- actions
\* batch.map(farm => this._analyzeFarmDaily(farm)): every task of the batch runs
\* to its first await
LaunchBatch(fs, start) ==
  /\ task' = [f \in FarmIds |-> IF f \in Batch(fs, start) THEN "analyze" ELSE task[f]]
  /\ batches' = Append(batches, BatchSeq(fs, start))

\* mutant: the run ends without the finally block
FinallySkipped ==
  /\ UNCHANGED isRunning
  /\ pc' = "idle"

\* lines 96-98
Finally ==
  /\ isRunning' = FALSE
  /\ pc' = "idle"

\* runDailySatelliteAnalysis, lines 34-55: up to the await of _getActiveFarms
RunDailySatelliteAnalysis ==
  /\ now <= MaxCalls
  /\ pc \notin {"uninitialized", "exited"}
  /\ UNCHANGED <<varsAlert, varsNdvi>>
  /\ now' = now + 1
  /\ IF AlreadyRunning
       THEN /\ warnings' = warnings + 1
            /\ UNCHANGED <<varsJob, varsRun, varsDb, adminContacts, adminReportsEnabled,
                           sent, faults, batches, delays, runLog, raised, persisted>>
       ELSE /\ isRunning' = TRUE
            /\ lastExecution' = now
            /\ statistics' = ZeroStatistics
            /\ pc' = "listing"
            /\ farms' = <<>>
            /\ i' = 0
            /\ task' = [f \in FarmIds |-> "none"]
            /\ batches' = <<>>
            /\ delays' = 0
            /\ runLog' = <<"start">>
            /\ raised' = [f \in FarmIds |-> {}]
            /\ persisted' = NothingPersisted
            /\ UNCHANGED <<varsDb, adminContacts, adminReportsEnabled, sent, faults,
                           warnings>>

\* cron.schedule(cronSchedule, ...) of initializeDailyAnalysis
CronTrigger == RunDailySatelliteAnalysis

\* the exported runDailySatelliteAnalysis(), called by the API or a command
ManualRun == RunDailySatelliteAnalysis

\* line 216: the error _getActiveFarms logs before it returns []
ListingLog(queryOk) == IF queryOk THEN <<>> ELSE <<"listing_error">>

\* lines 55-74: the listing returns; an empty listing ends the run, otherwise
\* the first batch is launched
GetActiveFarmsDone ==
  /\ pc = "listing"
  /\ \E queryOk \in BOOLEAN :
       /\ (~queryOk => faults < MaxFaults)
       /\ faults' = IF queryOk THEN faults ELSE faults + 1
       /\ LET fs == GetActiveFarms(registry, queryOk) IN
            /\ farms' = fs
            /\ statistics' = [statistics EXCEPT !.totalFarms = Len(fs)]
            /\ IF Len(fs) = 0
                 THEN /\ runLog' = runLog \o ListingLog(queryOk) \o <<"no_farms">>
                      /\ Finally
                      /\ UNCHANGED <<task, batches>>
                 ELSE /\ runLog' = runLog \o ListingLog(queryOk)
                      /\ LaunchBatch(fs, 0)
                      /\ pc' = "batch"
                      /\ UNCHANGED isRunning
  /\ UNCHANGED <<lastExecution, i, varsDb, adminContacts,
                 adminReportsEnabled, sent, now, warnings, delays, raised, persisted>>
  /\ UNCHANGED <<varsAlert, varsNdvi>>

\* the row of farm f in the listing
RowOf(f) == farms[CHOOSE k \in 1..Len(farms) : farms[k].id = f]

\* _saveAnalysisResult: the INSERT into satellite_analyses, then the UPDATE of
\* farms.last_analysis_at; a failure of either is caught and logged there
SavedAnalyses(f, rest) ==
  IF rest = "insert_fail" THEN analyses ELSE [analyses EXCEPT ![f] = @ + 1]

\* mutant: the UPDATE without its WHERE clause
SavedRegistryEveryFarm(f, rest) ==
  IF rest \in SaveFailures THEN registry
  ELSE [g \in FarmIds |-> [registry[g] EXCEPT !.last_analysis_at = lastExecution]]

\* the UPDATE of farms.last_analysis_at, reached when the INSERT succeeded
SavedRegistry(f, rest) ==
  IF rest \in SaveFailures THEN registry
  ELSE [registry EXCEPT ![f].last_analysis_at = lastExecution]

\* mutant: the increment of a second task lost
CountSuccessLost(st, alerts) ==
  [st EXCEPT !.successfulAnalyses = IF @ > 0 THEN @ ELSE @ + 1,
             !.alertsGenerated = @ + alerts]

\* lines 161-162
CountSuccess(st, alerts) ==
  [st EXCEPT !.successfulAnalyses = @ + 1, !.alertsGenerated = @ + alerts]

\* line 179
CountFailure(st) == [st EXCEPT !.failedAnalyses = @ + 1]

\* _analyzeFarmDaily, lines 105-185: the pipeline of farm f ends in a skip, in
\* the catch block (failedAnalyses++, then the await of _saveAnalysisError) or,
\* past _saveAnalysisResult, in the success count
AnalyzeFarmDaily(f) ==
  /\ task[f] = "analyze"
  /\ \E fresh \in FreshOutcomes, rest \in RestOutcomes :
       LET r == Pipeline(RowOf(f), analyses[f], fresh, rest) IN
         /\ (r = "skip_fresh" => rest = "ok")
         /\ (rest \in AlertFailures => AlertsFor(f) > 0)
         /\ faults + Cost(fresh, rest) <= MaxFaults
         /\ faults' = faults + Cost(fresh, rest)
         /\ raised' = [raised EXCEPT ![f] =
              (IF fresh = "error" THEN {"freshness"} ELSE {})
              \cup (IF rest \in Throws THEN {"pipeline"} ELSE {})
              \cup (IF rest \in SaveFailures THEN {"save"} ELSE {})
              \cup (IF rest \in AlertFailures THEN {"alerts"} ELSE {})]
         /\ task' = [task EXCEPT ![f] =
              CASE r = "skip_fresh" -> "skipped_fresh"
                [] r = "skip_no_image" -> "skipped_no_image"
                [] r = "throw" -> "saveError"
                [] OTHER -> "succeeded"]
         /\ analyses' = IF r = "analyzed" THEN SavedAnalyses(f, rest) ELSE analyses
         /\ persisted' = IF r = "analyzed" /\ rest # "insert_fail"
              THEN [persisted EXCEPT !.analyses = @ \cup {f}]
              ELSE persisted
         /\ registry' = IF r = "analyzed" THEN SavedRegistry(f, rest) ELSE registry
         /\ statistics' =
              CASE r = "throw" -> CountFailure(statistics)
                [] r = "analyzed" -> CountSuccess(statistics, SavedAlertsFor(f, rest))
                [] OTHER -> statistics
  /\ UNCHANGED <<isRunning, lastExecution, pc, farms, i, errors, reports, adminContacts,
                 adminReportsEnabled, sent, now, warnings, batches, delays, runLog>>
  /\ UNCHANGED <<varsAlert, varsNdvi>>

\* _saveAnalysisError (its own try/catch logs a failed INSERT)
SaveAnalysisError(f) ==
  /\ task[f] = "saveError"
  /\ \E insertOk \in BOOLEAN :
       /\ (~insertOk => faults < MaxFaults)
       /\ faults' = IF insertOk THEN faults ELSE faults + 1
       /\ errors' = IF insertOk THEN [errors EXCEPT ![f] = @ + 1] ELSE errors
       /\ persisted' = IF insertOk THEN [persisted EXCEPT !.errors = @ \cup {f}]
                       ELSE persisted
  /\ task' = [task EXCEPT ![f] = "failed"]
  /\ UNCHANGED <<varsJob, pc, farms, i, registry, analyses, reports, adminContacts,
                 adminReportsEnabled, sent, now, warnings, batches, delays, runLog,
                 raised>>
  /\ UNCHANGED <<varsAlert, varsNdvi>>

\* lines 72-83: allSettled resolves; the pause begins, or _generateDailyReport
\* runs to its INSERT
BatchSettled ==
  /\ pc = "batch"
  /\ AllSettled(Batch(farms, i))
  /\ IF HasNextBatch
       THEN /\ pc' = "sleep"
            /\ delays' = delays + 1
       ELSE /\ pc' = "report"
            /\ UNCHANGED delays
  /\ UNCHANGED <<varsJob, farms, i, task, varsDb, varsEnv, warnings,
                 batches, runLog, raised, persisted>>
  /\ UNCHANGED <<varsAlert, varsNdvi>>

\* the pause ends: i += batchSize; the loop test of line 67 launches the next
\* batch or leaves the loop for _generateDailyReport
SleepDone ==
  /\ pc = "sleep"
  /\ i' = i + batchSize
  /\ IF LoopContinues(i + batchSize)
       THEN /\ LaunchBatch(farms, i + batchSize)
            /\ pc' = "batch"
       ELSE /\ pc' = "report"
            /\ UNCHANGED <<task, batches>>
  /\ UNCHANGED <<varsJob, farms, varsDb, varsEnv, warnings, delays,
                 runLog, raised, persisted>>
  /\ UNCHANGED <<varsAlert, varsNdvi>>

\* what the INSERT into daily_reports can do: succeed, fail, or be rejected
\* by the UNIQUE constraint on date when a report of the same date exists
ReportOutcomes == {"ok", "error", "duplicate_date"}

\* the report of _generateDailyReport: the statistics of the run
DailyReport(st) == st

\* _generateDailyReport, lines 446-458: the INSERT returns (its failure is
\* logged); with ADMIN_REPORTS_ENABLED and contacts the report is sent next,
\* otherwise the run ends
GenerateDailyReport ==
  /\ pc = "report"
  /\ \E outcome \in ReportOutcomes :
       LET insertOk == outcome = "ok" IN
       /\ (outcome = "error" => faults < MaxFaults)
       /\ (outcome = "duplicate_date" => reports > 0)
       /\ faults' = IF outcome = "error" THEN faults + 1 ELSE faults
       /\ reports' = IF insertOk THEN reports + 1 ELSE reports
       /\ persisted' = IF insertOk
            THEN [persisted EXCEPT !.reports = Append(@, DailyReport(statistics))]
            ELSE persisted
       /\ IF insertOk /\ adminReportsEnabled /\ adminContacts > 0
            THEN /\ pc' = "admin_report"
                 /\ UNCHANGED <<isRunning, runLog>>
            ELSE /\ runLog' = Append(runLog, "completed")
                 /\ Finally
  /\ UNCHANGED <<lastExecution, statistics, farms, i, task, registry,
                 analyses, errors, adminContacts, adminReportsEnabled, sent, now,
                 warnings, batches, delays, raised>>
  /\ UNCHANGED <<varsAlert, varsNdvi>>

\* _sendAdminReport: one message per contact, then lines 85-98
SendAdminReport ==
  /\ pc = "admin_report"
  /\ sent' = [sent EXCEPT !.admin_report = @ + adminContacts]
  /\ runLog' = Append(runLog, "completed")
  /\ Finally
  /\ UNCHANGED <<lastExecution, statistics, farms, i, task, varsDb,
                 adminContacts, adminReportsEnabled, now, faults, warnings, batches,
                 delays, raised, persisted>>
  /\ UNCHANGED <<varsAlert, varsNdvi>>

\* processAnalysisAlerts, lines 323-342: the alerts are combined and
\* prioritized, up to the await of _saveAlerts
ProcessAnalysisAlerts ==
  /\ alertPc = "called"
  /\ claudeAlerts' = ProcessClaudeAlerts(claudeAnalysis)
  /\ prioritizedAlerts' =
       PrioritizeAlerts(ProcessNDVIAlerts(ndviAnalysis) \o ProcessClaudeAlerts(claudeAnalysis))
  /\ alertPc' = "saving"
  /\ UNCHANGED <<farmInfo, ndviAnalysis, claudeAnalysis, whatsappEnabled, savedAlerts,
                 outbox>>
  /\ UNCHANGED <<varsOrchestrator, varsNdvi>>

\* _saveAlerts returns: an INSERT that fails is logged and its alert left out;
\* line 345 then reads ALERT_WHATSAPP_ENABLED
SaveAlerts ==
  /\ alertPc = "saving"
  /\ \E failed \in SUBSET (1..Len(prioritizedAlerts)) :
       /\ Cardinality(failed) <= MaxFaults
       /\ savedAlerts' = Without(prioritizedAlerts, failed)
  /\ alertPc' = IF whatsappEnabled THEN "sending" ELSE "returned"
  /\ UNCHANGED <<farmInfo, ndviAnalysis, claudeAnalysis, whatsappEnabled,
                 claudeAlerts, prioritizedAlerts, outbox>>
  /\ UNCHANGED <<varsOrchestrator, varsNdvi>>

\* _sendWhatsAppAlerts(farmInfo, prioritizedAlerts) returns, then lines 349-359
SendWhatsAppAlerts ==
  /\ alertPc = "sending"
  /\ \E failAt \in 0..DispatchCalls(farmInfo, prioritizedAlerts) :
       /\ (failAt > 0 =>
             Len(prioritizedAlerts) - Len(savedAlerts) < MaxFaults)
       /\ outbox' = outbox \o Dispatch(farmInfo, prioritizedAlerts, failAt)
  /\ alertPc' = "returned"
  /\ UNCHANGED <<farmInfo, ndviAnalysis, claudeAnalysis, whatsappEnabled,
                 claudeAlerts, prioritizedAlerts, savedAlerts>>
  /\ UNCHANGED <<varsOrchestrator, varsNdvi>>

Next ==
  \/ CronTrigger
  \/ ManualRun
  \/ GetActiveFarmsDone
  \/ \E f \in FarmIds : AnalyzeFarmDaily(f)
  \/ \E f \in FarmIds : SaveAnalysisError(f)
  \/ BatchSettled
  \/ SleepDone
  \/ GenerateDailyReport
  \/ SendAdminReport

Spec == Init /\ [][Next]_vars

NextFleet ==
  \/ CronTrigger
  \/ ManualRun
  \/ GetActiveFarmsDone
  \/ \E f \in FarmIds : AnalyzeFarmDaily(f)
  \/ BatchSettled
  \/ SleepDone
  \/ GenerateDailyReport
  \/ SendAdminReport

SpecFleet == InitFleet /\ [][NextFleet]_vars

\* the alert service alone, the job idle
InitAlertService ==
  /\ InitJob(MaxCalls + 1, MaxFaults)
  /\ InitDb(0, FALSE)
  /\ adminContacts = 0
  /\ adminReportsEnabled = FALSE
  /\ InitNdviIdle
  /\ InitAlert

NextAlert ==
  \/ ProcessAnalysisAlerts
  \/ SaveAlerts
  \/ SendWhatsAppAlerts

SpecAlert == InitAlertService /\ [][NextAlert]_vars

\* _processClaudeAlerts alone, over findings of every severity a vision
\* response can carry: the five of the table, an unknown word, none, and a
\* name inherited from Object.prototype
ClaudeSeverities ==
  {"critical", "high", "medium", "low", "info", "severe", Undefined, "constructor"}

SeverityKinds ==
  {[type |-> t, severity |-> v] : t \in {"PEST_DISEASE_RISK", Undefined}, v \in ClaudeSeverities}

SeverityLists == UNION {[1..n -> SeverityKinds] : n \in 0..MaxFindings}

InitSeverity ==
  /\ InitJob(MaxCalls + 1, MaxFaults)
  /\ InitDb(0, FALSE)
  /\ adminContacts = 0
  /\ adminReportsEnabled = FALSE
  /\ InitNdviIdle
  /\ alertPc = "called"
  /\ farmInfo = [ownerPhone |-> Undefined, technicalContacts |-> 0]
  /\ ndviAnalysis = [statistics |-> [average |-> 0, std |-> 0],
                     zones |-> [bare_soil |-> [percentage |-> 0]], alerts |-> <<>>]
  /\ \E kinds \in SeverityLists, risk \in {"low", "high"} :
       claudeAnalysis = [findings |-> Findings(kinds), overallRisk |-> risk]
  /\ whatsappEnabled = FALSE
  /\ claudeAlerts = <<>>
  /\ prioritizedAlerts = <<>>
  /\ savedAlerts = <<>>
  /\ outbox = <<>>

\* line 334: _processClaudeAlerts returns
ProcessClaudeAlertsDone ==
  /\ alertPc = "called"
  /\ claudeAlerts' = ProcessClaudeAlerts(claudeAnalysis)
  /\ alertPc' = "combined"
  /\ UNCHANGED <<farmInfo, ndviAnalysis, claudeAnalysis, whatsappEnabled,
                 prioritizedAlerts, savedAlerts, outbox>>
  /\ UNCHANGED <<varsOrchestrator, varsNdvi>>

NextSeverity == ProcessClaudeAlertsDone

SpecSeverity == InitSeverity /\ [][NextSeverity]_vars

\* an awaited call of the pipeline of farm f that never settles: this.db.query
\* (line 234) and axios.get of searchImages carry no timeout, and
\* _analyzeFarmDaily races none of its awaits against a timer
CallNeverResponds(f) ==
  /\ task[f] = "analyze"
  /\ faults < MaxFaults
  /\ faults' = faults + 1
  /\ task' = [task EXCEPT ![f] = "hung"]
  /\ UNCHANGED <<varsJob, pc, farms, i, varsDb, adminContacts, adminReportsEnabled,
                 sent, now, varsObs>>
  /\ UNCHANGED <<varsAlert, varsNdvi>>

NextHang ==
  \/ CronTrigger
  \/ ManualRun
  \/ GetActiveFarmsDone
  \/ \E f \in FarmIds : AnalyzeFarmDaily(f)
  \/ \E f \in FarmIds : CallNeverResponds(f)
  \/ \E f \in FarmIds : SaveAnalysisError(f)
  \/ BatchSettled
  \/ SleepDone
  \/ GenerateDailyReport
  \/ SendAdminReport

\* the event loop runs every continuation whose promise or timer has settled;
\* the triggers come from outside and nothing makes a silent call answer
Progress ==
  /\ WF_vars(GetActiveFarmsDone)
  /\ WF_vars(\E f \in FarmIds : AnalyzeFarmDaily(f))
  /\ WF_vars(\E f \in FarmIds : SaveAnalysisError(f))
  /\ WF_vars(BatchSettled)
  /\ WF_vars(SleepDone)
  /\ WF_vars(GenerateDailyReport)
  /\ WF_vars(SendAdminReport)

\* the daily job with calls that may never respond
SpecHang == Init /\ [][NextHang]_vars /\ Progress

\* the server's process.on('SIGINT'): db.end waits for the pool's clients, not
\* for the farm tasks, then process.exit(0) ends the process with the tasks
\* in flight where they are
Sigint ==
  /\ pc # "exited"
  /\ pc' = "exited"
  /\ task' = [f \in FarmIds |-> IF task[f] \in InFlightPc THEN "abandoned" ELSE task[f]]
  /\ UNCHANGED <<varsJob, farms, i, varsDb, varsEnv, varsObs>>
  /\ UNCHANGED <<varsAlert, varsNdvi>>

NextShutdown ==
  \/ CronTrigger
  \/ ManualRun
  \/ GetActiveFarmsDone
  \/ \E f \in FarmIds : AnalyzeFarmDaily(f)
  \/ \E f \in FarmIds : SaveAnalysisError(f)
  \/ BatchSettled
  \/ SleepDone
  \/ GenerateDailyReport
  \/ SendAdminReport
  \/ Sigint

\* the daily job inside a process that can be told to stop
SpecShutdown == Init /\ [][NextShutdown]_vars

\* the server entry point as it starts: it requires runDailySatelliteAnalysis
\* of cron/dailyAnalysis.js and schedules it; nothing calls
\* initializeDailyAnalysis, so the module's dailyAnalysisJob is null
InitServer ==
  /\ InitJobAt("uninitialized", 1, 0)
  /\ InitNdviIdle
  /\ InitAlertIdle
  /\ \E n \in 0..MaxFarms, fresh \in BOOLEAN : InitDb(n, fresh)
  /\ InitEnv

\* cron.schedule('0 6 * * *', ...) of the server: the exported
\* runDailySatelliteAnalysis throws 'Cron job não inicializado' while
\* dailyAnalysisJob is null, and the .catch of the trigger logs it
ServerCronTrigger ==
  IF pc = "uninitialized"
    THEN /\ now <= MaxCalls
         /\ now' = now + 1
         /\ runLog' = Append(runLog, "not_initialized")
         /\ UNCHANGED <<varsJob, varsRun, varsDb, adminContacts, adminReportsEnabled,
                        sent, faults, warnings, batches, delays, raised, persisted>>
         /\ UNCHANGED <<varsAlert, varsNdvi>>
    ELSE RunDailySatelliteAnalysis

NextServer ==
  \/ ServerCronTrigger
  \/ Sigint

SpecServer == InitServer /\ [][NextServer]_vars

\* the index service alone, the job and the alert service idle
InitNdviService ==
  /\ InitJob(MaxCalls + 1, MaxFaults)
  /\ InitDb(0, FALSE)
  /\ adminContacts = 0
  /\ adminReportsEnabled = FALSE
  /\ InitAlertIdle
  /\ InitNdvi

DimensionsDifferInWidth(nirMeta, redMeta) ==
  nirMeta.width # redMeta.width

\* lines 35-37
DimensionsDiffer(nirMeta, redMeta) ==
  nirMeta.width # redMeta.width \/ nirMeta.height # redMeta.height

DimensionMismatch == "Dimensões das bandas NIR e Red não coincidem"

\* calculateNDVI, from the call to its return or its throw: the catch block
\* logs and throws the error again
CalculateNDVI ==
  /\ ndviPc = "called"
  /\ IF DimensionsDiffer(nirBand, redBand)
       THEN /\ ndviPc' = "thrown"
            /\ ndviError' = DimensionMismatch
            /\ UNCHANGED ndviResult
       ELSE LET ndviData == ComputeNDVIPixels(nirBand.data, redBand.data)
                statistics1 == CalculateStatistics(ndviData)
                zones == IdentifyVegetationZones(ndviData, thresholds)
            IN /\ ndviPc' = "returned"
               /\ ndviResult' = <<[timestamp |-> now,
                                   dimensions |-> [width |-> nirBand.width,
                                                   height |-> nirBand.height],
                                   statistics |-> statistics1,
                                   zones |-> zones,
                                   alerts |-> GenerateAlerts(statistics1, zones),
                                   ndviData |-> ndviData]>>
               /\ UNCHANGED ndviError
  /\ UNCHANGED <<thresholdEnv, thresholds, nirBand, redBand>>
  /\ UNCHANGED <<varsOrchestrator, varsAlert>>

NextNdvi == CalculateNDVI

SpecNdvi == InitNdviService /\ [][NextNdvi]_vars

\* ----------------------------------------------------------------- claims
InFlight == {f \in FarmIds : task[f] \in InFlightPc}

Listed == {farms[k].id : k \in 1..Len(farms)}

RunEnded == pc = "idle" /\ runLog # <<>>

RunCompleted == RunEnded /\ "completed" \in Range(runLog)

\* C1: a call of runDailySatelliteAnalysis made while isRunning is true only
\* logs the warning: it launches no task and leaves the statistics, isRunning,
\* lastExecution and the position of the run as they are.
C1_ReentryIsNoOp ==
  [][(isRunning /\ now' # now) =>
       /\ warnings' = warnings + 1
       /\ UNCHANGED <<isRunning, lastExecution, statistics, pc, farms, i, task,
                      batches, delays>>]_vars

\* a call was rejected in the middle of a batch, after a farm was counted
C1_Witness ==
  /\ warnings > 0
  /\ pc = "batch"
  /\ InFlight # {}
  /\ statistics.successfulAnalyses + statistics.failedAnalyses > 0

\* C2: whatever tasks raise, a run with farms ends through the report step
\* with the task of every listed farm launched and settled.
C2_FailuresIsolated ==
  /\ (pc \in {"report", "admin_report"} \/ RunEnded) =>
       \A f \in Listed : task[f] \in Terminal
  /\ (RunEnded /\ Len(farms) > 0) => "completed" \in Range(runLog)

\* a completed run of two batches: in the first a task failed and another
\* succeeded, and the tasks of the second succeeded
C2_Witness ==
  /\ RunCompleted
  /\ Len(batches) = 2
  /\ \E f, g \in Range(batches[1]) : task[f] = "failed" /\ task[g] = "succeeded"
  /\ \A h \in Range(batches[2]) : task[h] = "succeeded"

\* C3: the tasks in flight all belong to the current batch and are at most
\* batchSize; while they run, every farm of an earlier batch has settled and no
\* farm of a later batch is launched.
C3_OneBatchInFlight ==
  /\ Cardinality(InFlight) <= batchSize
  /\ InFlight # {} => (pc = "batch" /\ InFlight \subseteq Batch(farms, i))
  /\ isRunning =>
       \A k \in 1..Len(farms) :
         /\ k <= i => task[farms[k].id] \in Terminal
         /\ k > i + batchSize => task[farms[k].id] = "none"

\* the second batch is in flight
C3_Witness ==
  /\ pc = "batch"
  /\ i = batchSize
  /\ InFlight # {}
  /\ Cardinality({f \in FarmIds : task[f] \in Terminal}) >= batchSize

\* ceil(n / batchSize)
BatchCount(n) == (n + batchSize - 1) \div batchSize

\* C4: a completed run over n > 0 farms launched ceil(n/5) batches, the farm at
\* listing position p (from 0) at place p % 5 of batch p \div 5, and paused
\* ceil(n/5) - 1 times; 12 farms give batches of 5, 5 and 2 farms and 2 pauses.
C4_Batching ==
  RunCompleted =>
    LET n == Len(farms) IN
      /\ n > 0
      /\ Len(batches) = BatchCount(n)
      /\ delays = BatchCount(n) - 1
      /\ \A b \in 1..Len(batches) :
           Len(batches[b]) = IF b < BatchCount(n) THEN batchSize
                             ELSE n - batchSize * (BatchCount(n) - 1)
      /\ \A p \in 0..(n - 1) :
           batches[(p \div batchSize) + 1][(p % batchSize) + 1] = farms[p + 1].id
      /\ (n = 12 => /\ Len(batches) = 3
                    /\ Len(batches[1]) = 5 /\ Len(batches[2]) = 5 /\ Len(batches[3]) = 2
                    /\ delays = 2)

\* a completed run over 12 farms
C4_Witness ==
  /\ RunCompleted
  /\ Len(farms) = 12
  /\ Len(batches) = 3
  /\ delays = 2

\* C5 (as claimed): a farm for which any step raised an error (freshness
\* lookup, image lookup, download, vision, alerts, saving the analysis) is
\* counted in failed and not in succeeded.
C5_AnyErrorCountsFailed ==
  /\ \A f \in FarmIds : (raised[f] # {} /\ task[f] \in Terminal) => task[f] = "failed"
  /\ RunEnded =>
       statistics.failedAnalyses >= Cardinality({f \in FarmIds : raised[f] # {}})

\* C6 (as claimed): at the end of a run succeeded is the number of farms with
\* an analysis row inserted during the run and failed the number of farms with
\* an error row inserted during the run.
C6_CountersMatchRecords ==
  RunCompleted =>
    /\ statistics.successfulAnalyses = Cardinality(persisted.analyses)
    /\ statistics.failedAnalyses = Cardinality(persisted.errors)

\* C7 (as claimed): a run whose farm listing failed launches no task, inserts
\* no report and, with administrator contacts configured, sends the
\* administrator failure notification.
C7_ListingFailureNotifies ==
  (RunEnded /\ "listing_error" \in Range(runLog)) =>
    /\ batches = <<>>
    /\ "completed" \notin Range(runLog)
    /\ adminContacts > 0 => sent.admin_error > 0

\* C8 (as claimed): a farm whose registry row has priority high, a critical
\* crop stage or a high last risk level is not skipped for a fresh analysis.
C8_OverrideForcesAnalysis ==
  \A f \in FarmIds : task[f] = "skipped_fresh" => ~ShouldForceAnalysis(registry[f])

\* the messages of the outbox addressed to the farm owner
ToOwner == SelectSeq(outbox, LAMBDA m : m.to = "owner")

\* a call that returned with WhatsApp enabled for a farm with an owner phone
Notified ==
  /\ alertPc = "returned"
  /\ whatsappEnabled
  /\ farmInfo.ownerPhone # Undefined

Ranked == 1..Len(prioritizedAlerts)

HighRanked == {k \in Ranked : prioritizedAlerts[k].severity = "high"}

\* the positions of the ranking with severity high and a type other than
\* HEALTHY_CROP
UrgentRanked == {k \in HighRanked : prioritizedAlerts[k].type # "HEALTHY_CROP"}

\* the position of the j-th member of the set of positions P
Nth(P, j) == CHOOSE k \in P : Cardinality({h \in P : h < k}) = j - 1

NoPositiveSent == \A k \in 1..Len(outbox) : outbox[k].kind # "positive"

IndexHealthy ==
  {k \in Ranked : /\ prioritizedAlerts[k].type = "HEALTHY_VEGETATION"
                  /\ prioritizedAlerts[k].source = "ndvi_analysis"}

AnyHealthy ==
  {k \in Ranked : prioritizedAlerts[k].type \in {"HEALTHY_VEGETATION", "HEALTHY_CROP"}}

\* C10 (as claimed): with no high alert and the healthy-vegetation alert of
\* the index rule among the farm's alerts, a positive message is handed over;
\* with neither a high nor a healthy alert nothing is sent.
C10_HealthySendsPositive ==
  /\ (Notified /\ HighRanked = {} /\ IndexHealthy # {}) =>
       \E k \in 1..Len(outbox) : outbox[k].kind = "positive"
  /\ (alertPc = "returned" /\ HighRanked = {} /\ AnyHealthy = {}) => outbox = <<>>

\* the alerts of the call in emission order: lines 333-336
EmittedAlerts == ProcessNDVIAlerts(ndviAnalysis) \o ProcessClaudeAlerts(claudeAnalysis)

\* the call is past _prioritizeAlerts
Prioritized == alertPc \in {"saving", "sending", "returned"}

\* the first position of the emission order em with the key of alert a
FirstEmitted(em, a) ==
  CHOOSE k \in 1..Len(em) :
    /\ AlertKey(em[k]) = AlertKey(a)
    /\ \A j \in 1..(k - 1) : AlertKey(em[j]) # AlertKey(a)

\* C11: the alerts handed to _saveAlerts, and the alerts it saved, hold no two
\* alerts of the same (type, severity) for the farm; at the hand-over every key
\* emitted is kept, by its first alert in emission order, index alerts before
\* vision alerts.
C11_DedupKeepsFirst ==
  /\ Prioritized =>
      LET kept == IF alertPc = "saving" THEN prioritizedAlerts ELSE savedAlerts
      IN \A j, k \in 1..Len(kept) : AlertKey(kept[j]) = AlertKey(kept[k]) => j = k
  /\ alertPc = "saving" =>
    LET em == EmittedAlerts IN
      /\ \A k \in Ranked : prioritizedAlerts[k] = em[FirstEmitted(em, prioritizedAlerts[k])]
      /\ \A e \in 1..Len(em) :
           \E k \in Ranked : AlertKey(prioritizedAlerts[k]) = AlertKey(em[e])
      /\ \A k \in Ranked :
           (\E e \in 1..Len(em) :
              /\ em[e].source = "ndvi_analysis"
              /\ AlertKey(em[e]) = AlertKey(prioritizedAlerts[k]))
             => prioritizedAlerts[k].source = "ndvi_analysis"

\* a call returned whose two index alerts each share their key with a vision
\* finding: 4 alerts emitted, the 2 index alerts kept and saved
C11_Witness ==
  /\ alertPc = "returned"
  /\ Len(EmittedAlerts) = 4
  /\ Len(prioritizedAlerts) = 2
  /\ Len(savedAlerts) = 2
  /\ \A k \in Ranked : prioritizedAlerts[k].source = "ndvi_analysis"
  /\ \E e \in 1..Len(EmittedAlerts) : EmittedAlerts[e].source = "claude_vision"

\* the position of alert a in the emission order em
EmittedAt(em, a) == CHOOSE k \in 1..Len(em) : em[k] = a

\* the severities from the highest rank to the lowest
SeverityRanking == <<"high", "medium", "low", "info">>

\* the place of a severity in the ranking, 1 for the highest
RankOf(severity) == CHOOSE r \in 1..Len(SeverityRanking) : SeverityRanking[r] = severity

\* list s goes from high to info and, inside a severity, in emission order em
RankedStably(s, em) ==
  \A j, k \in 1..Len(s) :
    j < k =>
      /\ RankOf(s[j].severity) <= RankOf(s[k].severity)
      /\ s[j].severity = s[k].severity => EmittedAt(em, s[j]) < EmittedAt(em, s[k])

SeverityTable(severity) ==
  IF severity \in {"critical", "high"} THEN "high"
  ELSE IF severity \in {"medium", "low", "info"} THEN severity
  ELSE "medium"

\* C13 (as claimed): every finding becomes one alert, in order, with the
\* severity of the table, medium for any other or missing severity; every
\* alert has a severity among info, low, medium and high.
C13_SeverityMapped ==
  alertPc \in {"combined", "saving", "sending", "returned"} =>
    /\ Len(claudeAlerts) =
         Len(claudeAnalysis.findings) + (IF claudeAnalysis.overallRisk = "high" THEN 1 ELSE 0)
    /\ \A k \in 1..Len(claudeAnalysis.findings) :
         claudeAlerts[k].severity = SeverityTable(claudeAnalysis.findings[k].severity)
    /\ \A k \in 1..Len(claudeAlerts) :
         claudeAlerts[k].severity \in {"info", "low", "medium", "high"}

\* C14: a step of a run writes farms.last_analysis_at of a farm only as that
\* farm's task completes its pipeline and is counted succeeded, and writes the
\* time of the run; the row of a farm whose task is skipped or fails is not
\* written.
C14_TimestampOnlyOnSuccess ==
  [][\A f \in FarmIds :
       registry'[f].last_analysis_at # registry[f].last_analysis_at =>
         /\ task[f] = "analyze"
         /\ task'[f] = "succeeded"
         /\ registry'[f].last_analysis_at = lastExecution]_vars

\* a completed run: a farm succeeded and its row carries the time of the run,
\* a farm failed and another was skipped, their rows as they were
C14_Witness ==
  /\ RunCompleted
  /\ \E f \in Listed : task[f] = "succeeded" /\ registry[f].last_analysis_at = lastExecution
  /\ \E g \in Listed : task[g] = "failed" /\ registry[g].last_analysis_at = 0
  /\ \E h \in Listed : task[h] = "skipped_fresh" /\ h \notin persisted.analyses

\* the listing of the run succeeded and the run has ended
ListedRunEnded == RunEnded /\ "listing_error" \notin Range(runLog)

\* C15 (as claimed): a run whose listing succeeded, a run over no farm and a
\* run on a date that has a report included, ends with exactly one report
\* inserted, carrying the totals of the run; a report is inserted only after
\* every batch has settled.
C15_OneReportPerRun ==
  /\ ListedRunEnded =>
       /\ Len(persisted.reports) = 1
       /\ persisted.reports[1] = statistics
  /\ persisted.reports # <<>> => \A f \in Listed : task[f] \in Terminal

\* C16: a call of calculateNDVI on two rasters whose width or height differ
\* ends by throwing the dimension error and returns no result: no statistics,
\* zones or alerts computed over an overlap of the two rasters.
C16_MismatchThrows ==
  (/\ ndviPc \in {"returned", "thrown"}
   /\ (nirBand.width # redBand.width \/ nirBand.height # redBand.height))
  => /\ ndviPc = "thrown"
     /\ ndviError = DimensionMismatch
     /\ ndviResult = <<>>

C16_Witness ==
  /\ ndviPc = "thrown"
  /\ ndviError = DimensionMismatch
  /\ ndviResult = <<>>
  /\ nirBand.width = redBand.width
  /\ nirBand.height # redBand.height
  /\ Len(nirBand.data) > Len(redBand.data)

\* the threshold table: index < 0 water, [0, low) bare soil, [low, normal)
\* sparse, [normal, high) moderate, >= high dense
InTableZone(z, value, th) ==
  LET x == 1000 * value
  IN CASE z = "water" -> x < 0
       [] z = "bare_soil" -> 0 <= x /\ x < th.low
       [] z = "sparse_vegetation" -> th.low <= x /\ x < th.normal
       [] z = "moderate_vegetation" -> th.normal <= x /\ x < th.high
       [] z = "dense_vegetation" -> th.high <= x

ValidPixels(ndviData) == {k \in 1..Len(ndviData) : IsValidValue(ndviData[k])}

RECURSIVE SumOver(_, _)
SumOver(f, S) ==
  IF S = {} THEN 0 ELSE LET x == CHOOSE y \in S : TRUE IN f[x] + SumOver(f, S \ {x})

\* C17 (as claimed): in a returned result, for thresholds in increasing order,
\* the count of each zone is the number of valid pixels whose index lies in the
\* zone's interval of the table, the five counts sum to the number of valid
\* pixels, and with at least one valid pixel each percentage is the count over
\* the valid pixels times 100 and the five sum to 100 within rounding.
C17_ZonesPartitionValidPixels ==
  (/\ ndviPc = "returned"
   /\ thresholds.low < thresholds.normal
   /\ thresholds.normal < thresholds.high)
  => LET result == ndviResult[1]
         valid == ValidPixels(result.ndviData)
         counts == [z \in ZoneNames |-> result.zones[z].count]
         percentages == [z \in ZoneNames |-> result.zones[z].percentage]
     IN /\ \A z \in ZoneNames :
             counts[z] = Cardinality({k \in valid : InTableZone(z, result.ndviData[k], thresholds)})
        /\ SumOver(counts, ZoneNames) = Cardinality(valid)
        /\ valid # {} =>
             /\ \A z \in ZoneNames :
                  percentages[z] = RoundDiv(10000 * counts[z], Cardinality(valid))
             /\ SumOver(percentages, ZoneNames) \in 9997..10003

AlertsOfType(alerts, type) == {k \in 1..Len(alerts) : alerts[k].type = type}

\* C18 (as claimed): in every returned index result a mean below
\* thresholds.low comes with exactly one LOW_VEGETATION_INDEX alert, of
\* severity high, a mean above thresholds.high with exactly one
\* HEALTHY_VEGETATION alert, of severity info, and no result holds both a
\* stress alert and a healthy alert.
C18_StressAndHealthyExclusive ==
  ndviPc = "returned"
  => LET result == ndviResult[1]
         mean == result.statistics.average
         stress == AlertsOfType(result.alerts, "LOW_VEGETATION_INDEX")
         healthy == AlertsOfType(result.alerts, "HEALTHY_VEGETATION")
     IN /\ mean < thresholds.low =>
             /\ Cardinality(stress) = 1
             /\ \A k \in stress : result.alerts[k].severity = "high"
        /\ mean > thresholds.high =>
             /\ Cardinality(healthy) = 1
             /\ \A k \in healthy : result.alerts[k].severity = "info"
        /\ ~(stress # {} /\ healthy # {})

TasksIn(states) == {f \in FarmIds : task[f] \in states}

\* C19: in every state, whatever the order in which the tasks of a batch
\* take their steps, successfulAnalyses is the number of farms whose task
\* reached the success count and failedAnalyses the number whose task reached
\* the catch block (each farm counted once, a skipped farm in neither), their
\* sum is at most totalFarms once the listing has returned, and at the end of
\* the run successes, failures and skips add up to totalFarms.
C19_CountersMatchOutcomes ==
  /\ statistics.successfulAnalyses = Cardinality(TasksIn({"succeeded"}))
  /\ statistics.failedAnalyses = Cardinality(TasksIn({"saveError", "failed"}))
  /\ pc # "listing" =>
       statistics.successfulAnalyses + statistics.failedAnalyses <= statistics.totalFarms
  /\ RunEnded =>
       statistics.successfulAnalyses + statistics.failedAnalyses
         + Cardinality(TasksIn({"skipped_fresh", "skipped_no_image"}))
       = statistics.totalFarms

C19_Witness ==
  /\ RunCompleted
  /\ Len(batches) = 2
  /\ statistics.failedAnalyses = 1
  /\ statistics.successfulAnalyses >= 1
  /\ TasksIn({"skipped_fresh"}) # {}
  /\ statistics.successfulAnalyses + statistics.failedAnalyses < statistics.totalFarms

\* C20: whenever no run is in progress, a run that ended by its report or on
\* an empty listing included, isRunning is false, and the next call of
\* runDailySatelliteAnalysis is accepted: it logs no warning, sets isRunning
\* and starts a run whose four counters are zero.
C20_EndedRunAcceptsNextStart ==
  /\ [](pc = "idle" => ~isRunning)
  /\ [][(pc = "idle" /\ now' # now)
         => /\ isRunning'
            /\ pc' = "listing"
            /\ warnings' = warnings
            /\ lastExecution' = now
            /\ statistics' = ZeroStatistics]_vars

C20_Witness ==
  /\ pc = "listing"
  /\ isRunning
  /\ now = 3
  /\ warnings = 0
  /\ statistics = ZeroStatistics
  /\ reports = 1
  /\ \E f \in FarmIds : errors[f] = 1
  /\ \E f \in FarmIds : analyses[f] = 1 /\ registry[f].last_analysis_at = 1

\* C21 (as claimed): when a call inside a farm task never responds, the task
\* is ended by a timeout and counted in failedAnalyses, its batch settles and
\* the run goes on to its end, where isRunning is false again.
C21_SilentCallTimesOut ==
  (TasksIn({"hung"}) # {})
    ~> (/\ TasksIn({"hung"}) = {}
        /\ pc = "idle"
        /\ ~isRunning
        /\ statistics.failedAnalyses >= 1)

\* the farms of the batches launched so far
Launched == UNION {Range(batches[k]) : k \in 1..Len(batches)}

\* C22 (as claimed): once the process has been asked to stop, during a batch
\* included, no later batch has started and every task that was in flight
\* has run to its end and is counted: each launched farm is a success, a
\* failure or a skip, and the two counters agree with the outcomes.
C22_StopLetsBatchFinish ==
  pc = "exited" =>
    /\ \A f \in Launched : task[f] \in Terminal
    /\ statistics.successfulAnalyses = Cardinality(TasksIn({"succeeded"}))
    /\ statistics.failedAnalyses = Cardinality(TasksIn({"failed"}))

\* C23 (as claimed): in the running server every firing of the 06:00 trigger
\* that finds no run in progress starts a run: isRunning is set, the start is
\* recorded and the listing of the active farms is under way.
C23_TriggerStartsRun ==
  [][(now' # now /\ ~isRunning)
       => /\ isRunning'
          /\ lastExecution' = now
          /\ pc' = "listing"]_vars

\* the farms whose alert step met a failure
AlertStepFailed == {f \in FarmIds : "alerts" \in raised[f]}

C25_AlertsGeneratedSumsSurvivors ==
  RunEnded =>
    statistics.alertsGenerated
      = SumOver([f \in FarmIds |-> AlertsFor(f)], TasksIn({"succeeded"}))

\* ------------------------------------------- the index result of the daily run
\* farm.crop_type of a listed row: two crops of the table, one in capitals, a
\* crop the table does not have, and NULL
CropTypes == {"soja", "Pastagem", "cafe", "trigo", Undefined}

\* cropType?.toLowerCase()
ToLowerCase(cropType) == IF cropType = "Pastagem" THEN "pastagem" ELSE cropType

\* _getBaseNDVIForCrop, in ten-thousandths: baseValues[...] || 0.6
GetBaseNDVIForCrop(cropType) ==
  LET key == ToLowerCase(cropType)
  IN CASE key = "soja" -> 7000
       [] key = "milho" -> 6500
       [] key = "algodao" -> 6000
       [] key = "cana" -> 7500
       [] key = "cafe" -> 8000
       [] key = "citrus" -> 7500
       [] key = "pastagem" -> 5000
       [] OTHER -> 6000

\* new Date().getMonth()
Months == 0..11

\* _getSeasonalVariation
GetSeasonalVariation(month) == IF month >= 3 /\ month <= 8 THEN -1000 ELSE 1000

\* (Math.random() - 0.5) * 0.1 lies in [-0.05, 0.05) and Math.random() * 0.1
\* in [0, 0.1): draws of each, in ten-thousandths
RandomVariations == {-500, 0, 499}
RandomSpreads == {0, 999}

Clamp(lo, x, hi) == IF x < lo THEN lo ELSE IF x > hi THEN hi ELSE x

\* _generateMockZones: count, and percentage in hundredths of a percent
GenerateMockZones(averageNDVI) ==
  [z \in ZoneNames |->
     CASE z = "water" -> [count |-> 50, percentage |-> 100]
       [] z = "bare_soil" ->
            [count |-> IF averageNDVI < 3000 THEN 800 ELSE 200,
             percentage |-> IF averageNDVI < 3000 THEN 1600 ELSE 400]
       [] z = "sparse_vegetation" -> [count |-> 500, percentage |-> 1000]
       [] z = "moderate_vegetation" -> [count |-> 1500, percentage |-> 3000]
       [] z = "dense_vegetation" ->
            [count |-> RoundDiv(2950 * averageNDVI, 10000),
             percentage |-> 100 * RoundDiv(59 * averageNDVI, 10000)]]

\* _generateNDVIAlerts: one chain of else-ifs over fixed limits; the message
\* carries the average
GenerateNDVIAlerts(averageNDVI) ==
  IF averageNDVI < 3000
    THEN <<[type |-> "LOW_VEGETATION_INDEX", severity |-> "high", message |-> averageNDVI]>>
  ELSE IF averageNDVI < 5000
    THEN <<[type |-> "MODERATE_STRESS", severity |-> "medium", message |-> averageNDVI]>>
  ELSE IF averageNDVI > 7000
    THEN <<[type |-> "HEALTHY_VEGETATION", severity |-> "info", message |-> averageNDVI]>>
  ELSE <<>>

\* _generateMockNDVIAnalysis(farm), given what new Date() and the two calls of
\* Math.random() return; statistics.average is average.toFixed(3)
GenerateMockNDVIAnalysis(farm, date, month, randomVariation, randomSpread) ==
  LET average == Clamp(0, GetBaseNDVIForCrop(farm.crop_type)
                            + GetSeasonalVariation(month) + randomVariation, 10000)
  IN [timestamp |-> date,
      statistics |-> [average |-> 10 * RoundDiv(average, 10),
                      min |-> Clamp(0, average - 3000, average),
                      max |-> Clamp(average, average + 2000, 10000),
                      std |-> 1000 + randomSpread],
      zones |-> GenerateMockZones(average),
      alerts |-> GenerateNDVIAlerts(average)]

\* the service of a process whose job analyses one listed farm per run: the
\* row of the listing has crop_type, owner_phone and technical_contacts, so
\* its ownerPhone and technicalContacts are undefined
InitMock ==
  /\ InitJob(1, MaxFaults)
  /\ InitDb(0, FALSE)
  /\ adminContacts = 0
  /\ adminReportsEnabled = FALSE
  /\ thresholdEnv \in ThresholdEnvs
  /\ thresholds = Thresholds(thresholdEnv)
  /\ nirBand = Raster(1, 1, 1, <<0>>)
  /\ redBand = Raster(1, 1, 1, <<0>>)
  /\ ndviPc = "idle"
  /\ ndviResult = <<>>
  /\ ndviError = Undefined
  /\ alertPc = "idle"
  /\ \E cropType \in CropTypes :
       farmInfo = [ownerPhone |-> Undefined, technicalContacts |-> 0,
                   crop_type |-> cropType]
  /\ ndviAnalysis = [statistics |-> [average |-> 0, std |-> 0],
                     zones |-> [bare_soil |-> [percentage |-> 0]], alerts |-> <<>>]
  /\ claudeAnalysis = [findings |-> <<>>, overallRisk |-> "low"]
  /\ whatsappEnabled \in BOOLEAN
  /\ claudeAlerts = <<>>
  /\ prioritizedAlerts = <<>>
  /\ savedAlerts = <<>>
  /\ outbox = <<>>

\* _analyzeFarmDaily, lines 139-150, in the run of tick now: the index result
\* of the farm is made up and handed, with the vision result, to
\* processAnalysisAlerts
AnalyzeFarmMock ==
  /\ alertPc \in {"idle", "returned"}
  /\ now <= MaxCalls
  /\ now' = now + 1
  /\ \E month \in Months, randomVariation \in RandomVariations,
        randomSpread \in RandomSpreads :
       ndviAnalysis' =
         GenerateMockNDVIAnalysis(farmInfo, now, month, randomVariation, randomSpread)
  /\ \E risk \in {"low", "high"} :
       claudeAnalysis' = [findings |-> <<>>, overallRisk |-> risk]
  /\ alertPc' = "called"
  /\ claudeAlerts' = <<>>
  /\ prioritizedAlerts' = <<>>
  /\ savedAlerts' = <<>>
  /\ UNCHANGED <<farmInfo, whatsappEnabled, outbox>>
  /\ UNCHANGED <<varsJob, varsRun, varsDb, adminContacts, adminReportsEnabled, sent,
                 faults, varsObs>>
  /\ UNCHANGED varsNdvi

NextMock ==
  \/ AnalyzeFarmMock
  \/ ProcessAnalysisAlerts
  \/ SaveAlerts
  \/ SendWhatsAppAlerts

SpecMock == InitMock /\ [][NextMock]_vars

\* the (type, severity) pairs of the alerts of an index result
Derived(ndvi) == {<<ndvi.alerts[k].type, ndvi.alerts[k].severity>> : k \in 1..Len(ndvi.alerts)}

\* the four-rule table over the aggregate statistics and thresholds th
RuleTable(stats, zones, th) ==
  (IF stats.average < th.low THEN {<<"LOW_VEGETATION_INDEX", "high">>} ELSE {})
  \cup (IF stats.std > 2000 THEN {<<"HIGH_VARIABILITY", "medium">>} ELSE {})
  \cup (IF zones.bare_soil.percentage > 3000
          THEN {<<"EXCESSIVE_BARE_SOIL", "medium">>} ELSE {})
  \cup (IF stats.average > th.high THEN {<<"HEALTHY_VEGETATION", "info">>} ELSE {})

\* C26: the alerts of every index result handed to processAnalysisAlerts are
\* exactly those of the four-rule table, each rule evaluated on its own over
\* the statistics with the configured thresholds (stress iff average < low,
\* variability iff std > 0.2, bare soil iff its percentage > 30, healthy iff
\* average > high), one alert per rule that fires and none of another type.
C26_AlertsFollowRuleTable ==
  alertPc # "idle" =>
    /\ Derived(ndviAnalysis)
         = RuleTable(ndviAnalysis.statistics, ndviAnalysis.zones, thresholds)
    /\ Len(ndviAnalysis.alerts) = Cardinality(Derived(ndviAnalysis))

\* C27: when the index result of a farm is computed again, for the same farm
\* row and the same thresholds, its statistics, zones and alerts are those of
\* the result computed before: nothing of it comes from a random draw, from
\* the clock or from the environment.
C27_SameInputsSameResult ==
  [][(alertPc = "returned" /\ alertPc' = "called"
        /\ farmInfo' = farmInfo /\ thresholds' = thresholds)
       => /\ ndviAnalysis'.statistics = ndviAnalysis.statistics
          /\ ndviAnalysis'.zones = ndviAnalysis.zones
          /\ ndviAnalysis'.alerts = ndviAnalysis.alerts]_vars

\* ----------------------------- _calculateStatistics and _identifyVegetationZones
\* the values an array handed to the two methods holds, in tenths: NaN and
\* indices between -1 and 1; the arrays of up to MaxPixels values
MaxPixels == 3
PixelValues == {NaN, -10, 0, 3, 10}
PixelArrays == UNION {[1..n -> PixelValues] : n \in 0..MaxPixels}

\* the two methods are about to be applied to an array, held as the ndviData
\* of the result under construction
InitPixels ==
  /\ InitJob(MaxCalls + 1, MaxFaults)
  /\ InitDb(0, FALSE)
  /\ adminContacts = 0
  /\ adminReportsEnabled = FALSE
  /\ InitAlertIdle
  /\ thresholdEnv \in ThresholdEnvs
  /\ thresholds = Thresholds(thresholdEnv)
  /\ nirBand = Raster(1, 1, 1, <<0>>)
  /\ redBand = Raster(1, 1, 1, <<0>>)
  /\ ndviPc = "computed"
  /\ \E ndviData \in PixelArrays : ndviResult = <<[ndviData |-> ndviData]>>
  /\ ndviError = Undefined

\* calculateNDVI, lines 47-50, on that array
SummarizePixels ==
  /\ ndviPc = "computed"
  /\ LET ndviData == ndviResult[1].ndviData
     IN ndviResult' = <<[ndviData |-> ndviData,
                         statistics |-> CalculateStatistics(ndviData),
                         zones |-> IdentifyVegetationZones(ndviData, thresholds)]>>
  /\ ndviPc' = "summarized"
  /\ UNCHANGED <<thresholdEnv, thresholds, nirBand, redBand, ndviError>>
  /\ UNCHANGED <<varsOrchestrator, varsAlert>>

NextPixels == SummarizePixels

SpecPixels == InitPixels /\ [][NextPixels]_vars

C29_EveryPixelValid ==
  ndviPc = "returned" =>
    LET result == ndviResult[1]
    IN /\ Len(result.ndviData) = Len(nirBand.data)
       /\ \A k \in 1..Len(result.ndviData) :
            /\ result.ndviData[k] # NaN
            /\ result.ndviData[k] >= -10
            /\ result.ndviData[k] <= 10
            /\ k <= Len(redBand.data)
            /\ LET nir == nirBand.data[k]
                   red == redBand.data[k]
               IN /\ nir + red = 0 => result.ndviData[k] = 0
                  /\ nir + red # 0 => (nir + red) * result.ndviData[k] = 10 * (nir - red)
       /\ result.statistics.validPixels = result.statistics.totalPixels
       /\ result.statistics.totalPixels = Len(result.ndviData)

HighRiskAlerts(alerts) == AlertsOfType(alerts, "HIGH_RISK_IDENTIFIED")

\* C30: once the alerts of a call are combined, a vision result with overall
\* risk high has given exactly one HIGH_RISK_IDENTIFIED alert, of severity
\* high, next to the alerts of its findings, so that the urgent filter of
\* _sendWhatsAppAlerts keeps at least one alert whatever the other severities
\* are; a vision result with another overall risk has given none.
C30_HighRiskRaisesUrgentAlert ==
  Prioritized =>
    LET high == HighRiskAlerts(prioritizedAlerts)
    IN IF claudeAnalysis.overallRisk = "high"
         THEN /\ Cardinality(high) = 1
              /\ \A k \in high : prioritizedAlerts[k].severity = "high"
              /\ Cardinality(HighRiskAlerts(claudeAlerts)) = 1
              /\ UrgentAlerts(prioritizedAlerts) # <<>>
         ELSE /\ high = {}
              /\ HighRiskAlerts(claudeAlerts) = {}
====
